---------------------------- MODULE Spec2Model ----------------------------
(***************************************************************************)
(* Model of script.py, the build-config-driven aggregator:                 *)
(*   extract_paths_from_cmake, find_header_files, read_file_content, main. *)
(*                                                                         *)
(* Text (the configuration file, paths, the output document) is a sequence *)
(* of one-character strings, so that the regular expressions of the script *)
(* are modelled character by character.                                    *)
(***************************************************************************)
EXTENDS Naturals, Sequences, FiniteSets

VARIABLES
    argv,           \* sys.argv[1:] of the invocation: <<>> or <<path>>
    cmakeStatus,    \* the configuration file on disk: "ok", "missing", "unreadable"
    cmakeText,      \* its text
    decls,          \* the declarations cmakeText was written from
    fs,             \* the directory tree: absolute path -> entry
    pc,             \* position of main: "idle", "loop", "done", "aborted"
    project_dir,    \* main's project_dir
    source_paths,   \* main's source_paths (first result of extract_paths_from_cmake)
    include_dirs,   \* main's include_dirs (second result, never read again)
    header_files,   \* main's header_files
    all_files,      \* main's all_files
    idx,            \* index in all_files of the next loop iteration
    out,            \* project_code.txt: the sequence of chunks written to it
    outExists,      \* whether project_code.txt exists
    log,            \* per loop iteration: the path given and the paths passed to open()
    prev,           \* the previous finished invocation: its inputs and its output
    cur,            \* the inputs of the current invocation
    cands           \* argument of a direct call of find_header_files

vars == <<argv, cmakeStatus, cmakeText, decls, fs, pc, project_dir, source_paths,
          include_dirs, header_files, all_files, idx, out, outExists, log,
          prev, cur, cands>>

-----------------------------------------------------------------------------
(* Bounds *)

\* Largest number of declarations in a configuration text.
MaxDecls == 2

\* Largest number of candidates in one call of find_header_files.
MaxCands == 2

-----------------------------------------------------------------------------
(* Literals of the script *)

L_set == <<"s", "e", "t", "(">>
L_SOURCES == <<"_", "S", "O", "U", "R", "C", "E", "S">>
L_src == <<"s", "r", "c", "/">>
L_cpp == <<".", "c", "p", "p">>
L_add_executable == <<"a", "d", "d", "_", "e", "x", "e", "c", "u", "t", "a", "b", "l", "e", "(">>
L_include_directories == <<"i", "n", "c", "l", "u", "d", "e", "_", "d", "i", "r", "e", "c", "t", "o", "r", "i", "e", "s", "(">>
L_PROJECT_SOURCE_DIR == <<"$", "{", "P", "R", "O", "J", "E", "C", "T", "_", "S", "O", "U", "R", "C", "E", "_", "D", "I", "R", "}">>
L_dollar_brace == <<"$", "{">>
L_h == <<".", "h">>
L_hpp == <<".", "h", "p", "p">>
L_CMakeLists == <<"C", "M", "a", "k", "e", "L", "i", "s", "t", "s", ".", "t", "x", "t">>
L_include == <<"i", "n", "c", "l", "u", "d", "e">>
L_NotFound == <<"/", "/", " ", "F", "i", "l", "e", " ", "n", "o", "t", " ", "f", "o", "u", "n", "d", ":", " ">>
L_NLNL == <<"\n", "\n">>
L_FileStart == <<"/", "/", "=", "=", "=", "=", "=", " ", "F", "I", "L", "E", ":", " ">>
L_FileStartEnd == <<" ", "=", "=", "=", "=", "=", "/", "/", "\n", "\n">>
L_FileEnd == <<"\n", "\n", "/", "/", "=", "=", "=", "=", "=", " ", "E", "N", "D", " ", "F", "I", "L", "E", ":", " ", "{", "f", "i", "l", "e", "_", "p", "a", "t", "h", "}", " ", "=", "=", "=", "=", "=", "/", "/", "\n", "\n">>
L_ErrorReading == <<"/", "/", " ", "E", "r", "r", "o", "r", " ", "r", "e", "a", "d", "i", "n", "g", " ", "f", "i", "l", "e", " ">>
L_Colon == <<":", " ">>
L_ProjectCode == <<"/", "/", " ", "P", "r", "o", "j", "e", "c", "t", " ", "C", "o", "d", "e", " ", "f", "r", "o", "m", " ">>
L_NL == <<"\n">>
L_TotalFiles == <<"/", "/", " ", "T", "o", "t", "a", "l", " ", "f", "i", "l", "e", "s", ":", " ">>

-----------------------------------------------------------------------------
(* Character classes and string helpers *)

\* \w of the re module, on the characters the model uses
WordChars ==
    {"a", "b", "c", "d", "e", "f", "g", "h", "i", "j", "k", "l", "m",
     "n", "o", "p", "q", "r", "s", "t", "u", "v", "w", "x", "y", "z",
     "A", "B", "C", "D", "E", "F", "G", "H", "I", "J", "K", "L", "M",
     "N", "O", "P", "Q", "R", "S", "T", "U", "V", "W", "X", "Y", "Z",
     "0", "1", "2", "3", "4", "5", "6", "7", "8", "9", "_"}

\* [\w/]
PathChars == WordChars \cup {"/"}

\* \s of the re module, and the characters str.strip() removes
SpaceChars == {" ", "\t", "\n", "\r", "\f"}

SetMin(S) == CHOOSE x \in S : \A y \in S : x <= y
SetMax(S) == CHOOSE x \in S : \A y \in S : x >= y

RECURSIVE Flatten(_)
Flatten(ss) == IF ss = <<>> THEN <<>> ELSE Head(ss) \o Flatten(Tail(ss))

\* t[i:].startswith(lit)
HasLit(t, i, lit) ==
    /\ i >= 1
    /\ i + Len(lit) - 1 <= Len(t)
    /\ SubSeq(t, i, i + Len(lit) - 1) = lit

\* Length of the longest run of characters of C that starts at t[i].
RunLen(t, i, C) ==
    SetMin({j \in i..(Len(t) + 1) : j = Len(t) + 1 \/ t[j] \notin C}) - i

\* Length of the longest run of characters outside C that starts at t[i].
RunLenNot(t, i, C) ==
    SetMin({j \in i..(Len(t) + 1) : j = Len(t) + 1 \/ t[j] \in C}) - i

\* Index of the first c at or after i, 0 when there is none.
FirstIndex(t, i, c) ==
    LET at == {j \in i..Len(t) : t[j] = c}
    IN IF at = {} THEN 0 ELSE SetMin(at)

\* Index of the last c, 0 when there is none.
LastIndex(t, c) ==
    LET at == {j \in 1..Len(t) : t[j] = c}
    IN IF at = {} THEN 0 ELSE SetMax(at)

NoMatch == [ok |-> FALSE, group |-> <<>>, end |-> 0]

-----------------------------------------------------------------------------
(* The regular expressions of extract_paths_from_cmake.  A match at s is    *)
(* [ok, group, end]: group is what findall returns for it, end the index    *)
(* of its last character.                                                  *)

\* Variant: the same expression without re.DOTALL, where . matches no newline.
SetMatchAt_NoDotAll(t, s) ==
    IF ~HasLit(t, s, L_set) THEN NoMatch
    ELSE LET w == s + Len(L_set)
             run == RunLen(t, w, WordChars)
             stop(g) == FirstIndex(t, g, ")")
             ks == {k \in 1..run :
                       /\ HasLit(t, w + k, L_SOURCES)
                       /\ stop(w + k + Len(L_SOURCES)) # 0
                       /\ \A i \in (w + k + Len(L_SOURCES))..stop(w + k + Len(L_SOURCES)) :
                             t[i] # "\n"}
         IN IF ks = {} THEN NoMatch
            ELSE LET g == w + SetMax(ks) + Len(L_SOURCES)
                 IN [ok |-> TRUE, group |-> SubSeq(t, g, stop(g) - 1), end |-> stop(g)]

\* r'set\(\w+_SOURCES(.*?)\)' with re.DOTALL, anchored at s.  \w+ is greedy
\* and gives characters back until _SOURCES and a later ")" follow; .*? stops
\* at the first ")".
SetMatchAt(t, s) ==
    IF ~HasLit(t, s, L_set) THEN NoMatch
    ELSE LET w == s + Len(L_set)
             run == RunLen(t, w, WordChars)
             ks == {k \in 1..run :
                       /\ HasLit(t, w + k, L_SOURCES)
                       /\ FirstIndex(t, w + k + Len(L_SOURCES), ")") # 0}
         IN IF ks = {} THEN NoMatch
            ELSE LET g == w + SetMax(ks) + Len(L_SOURCES)
                     e == FirstIndex(t, g, ")")
                 IN [ok |-> TRUE, group |-> SubSeq(t, g, e - 1), end |-> e]

\* re.findall(r'set\(\w+_SOURCES(.*?)\)', t[from:], re.DOTALL)
RECURSIVE FindAllSourceSets(_, _)
FindAllSourceSets(t, from) ==
    LET starts == {s \in from..Len(t) : SetMatchAt(t, s).ok}
    IN IF starts = {} THEN <<>>
       ELSE LET m == SetMatchAt(t, SetMin(starts))
            IN <<m.group>> \o FindAllSourceSets(t, m.end + 1)

\* r'src/[\w/]+\.cpp' anchored at s
SrcMatchAt(t, s) ==
    IF ~HasLit(t, s, L_src) THEN NoMatch
    ELSE LET w == s + Len(L_src)
             run == RunLen(t, w, PathChars)
             ks == {k \in 1..run : HasLit(t, w + k, L_cpp)}
         IN IF ks = {} THEN NoMatch
            ELSE LET e == w + SetMax(ks) + Len(L_cpp) - 1
                 IN [ok |-> TRUE, group |-> SubSeq(t, s, e), end |-> e]

\* re.findall(r'src/[\w/]+\.cpp', t[from:])
RECURSIVE FindAllSrc(_, _)
FindAllSrc(t, from) ==
    LET starts == {s \in from..Len(t) : SrcMatchAt(t, s).ok}
    IN IF starts = {} THEN <<>>
       ELSE LET m == SrcMatchAt(t, SetMin(starts))
            IN <<m.group>> \o FindAllSrc(t, m.end + 1)

\* r'add_executable\(\w+\s+(src/[\w/]+\.cpp)' anchored at s
AddExecutableMatchAt(t, s) ==
    IF ~HasLit(t, s, L_add_executable) THEN NoMatch
    ELSE LET w == s + Len(L_add_executable)
             ks == {k \in 1..RunLen(t, w, WordChars) :
                       \E m \in 1..RunLen(t, w + k, SpaceChars) :
                           SrcMatchAt(t, w + k + m).ok}
         IN IF ks = {} THEN NoMatch
            ELSE LET k == SetMax(ks)
                     m == SetMax({n \in 1..RunLen(t, w + k, SpaceChars) :
                                     SrcMatchAt(t, w + k + n).ok})
                 IN SrcMatchAt(t, w + k + m)

\* re.findall(r'add_executable\(\w+\s+(src/[\w/]+\.cpp)', t[from:])
RECURSIVE FindAllMainFiles(_, _)
FindAllMainFiles(t, from) ==
    LET starts == {s \in from..Len(t) : AddExecutableMatchAt(t, s).ok}
    IN IF starts = {} THEN <<>>
       ELSE LET m == AddExecutableMatchAt(t, SetMin(starts))
            IN <<m.group>> \o FindAllMainFiles(t, m.end + 1)

\* r'include_directories\((.*?)\)' with re.DOTALL, anchored at s
IncludeMatchAt(t, s) ==
    IF ~HasLit(t, s, L_include_directories) THEN NoMatch
    ELSE LET g == s + Len(L_include_directories)
             e == FirstIndex(t, g, ")")
         IN IF e = 0 THEN NoMatch
            ELSE [ok |-> TRUE, group |-> SubSeq(t, g, e - 1), end |-> e]

\* re.findall(r'include_directories\((.*?)\)', t[from:], re.DOTALL)
RECURSIVE FindAllIncludeBlocks(_, _)
FindAllIncludeBlocks(t, from) ==
    LET starts == {s \in from..Len(t) : IncludeMatchAt(t, s).ok}
    IN IF starts = {} THEN <<>>
       ELSE LET m == IncludeMatchAt(t, SetMin(starts))
            IN <<m.group>> \o FindAllIncludeBlocks(t, m.end + 1)

\* t[from:].replace(old, new)
RECURSIVE Replace(_, _, _, _)
Replace(t, from, old, new) ==
    IF from > Len(t) THEN <<>>
    ELSE IF HasLit(t, from, old) THEN new \o Replace(t, from + Len(old), old, new)
    ELSE <<t[from]>> \o Replace(t, from + 1, old, new)

\* re.findall(r'\s*([^\s]+)', t[from:]): the maximal runs of non-space characters
RECURSIVE FindAllTokens(_, _)
FindAllTokens(t, from) ==
    LET i == from + RunLen(t, from, SpaceChars)
    IN IF i > Len(t) THEN <<>>
       ELSE LET n == RunLenNot(t, i, SpaceChars)
            IN <<SubSeq(t, i, i + n - 1)>> \o FindAllTokens(t, i + n)

-----------------------------------------------------------------------------
(* os.path on POSIX.  Paths of the model hold no ".", ".." or doubled       *)
(* slash, so the normalisation done by os.path.abspath changes nothing.    *)

\* Working directory of the invocation.
Cwd == <<"/", "w">>

IsAbs(p) == p # <<>> /\ p[1] = "/"

\* os.path.join(a, b)
Join(a, b) ==
    IF IsAbs(b) THEN b
    ELSE IF a = <<>> \/ a[Len(a)] = "/" THEN a \o b
    ELSE a \o <<"/">> \o b

\* os.path.abspath(p)
AbsPath(p) == IF IsAbs(p) THEN p ELSE Join(Cwd, p)

\* p.rstrip('/')
RECURSIVE RStripSlash(_)
RStripSlash(p) ==
    IF p # <<>> /\ p[Len(p)] = "/" THEN RStripSlash(SubSeq(p, 1, Len(p) - 1)) ELSE p

\* os.path.dirname(p): the head up to the last slash, without trailing
\* slashes unless it is all slashes
Dirname(p) ==
    LET head == SubSeq(p, 1, LastIndex(p, "/"))
    IN IF RStripSlash(head) = <<>> THEN head ELSE RStripSlash(head)

\* os.path.basename(p)
Basename(p) == SubSeq(p, LastIndex(p, "/") + 1, Len(p))

\* s.endswith(suffix)
EndsWith(s, suffix) ==
    /\ Len(s) >= Len(suffix)
    /\ SubSeq(s, Len(s) - Len(suffix) + 1, Len(s)) = suffix

\* sub in s
Contains(s, sub) == \E i \in 1..Len(s) : HasLit(s, i, sub)

\* s.strip()
Strip(s) ==
    LET keep == {i \in 1..Len(s) : s[i] \notin SpaceChars}
    IN IF keep = {} THEN <<>> ELSE SubSeq(s, SetMin(keep), SetMax(keep))

\* str(n) for a small natural number
Digit(d) == <<"0", "1", "2", "3", "4", "5", "6", "7", "8", "9">>[d + 1]
RECURSIVE Str(_)
Str(n) == IF n < 10 THEN <<Digit(n)>> ELSE Str(n \div 10) \o <<Digit(n % 10)>>

-----------------------------------------------------------------------------
(* extract_paths_from_cmake *)

\* sys.argv[1] if given, else the default 'CMakeLists.txt'
CmakeFile(args) == IF Len(args) > 0 THEN args[1] ELSE L_CMakeLists

\* os.path.dirname(os.path.abspath(cmake_file))
ProjectDir(cmake_file) == Dirname(AbsPath(cmake_file))

\* Variant: the add_executable matches put first.
ExtractSourcePaths_MainFilesFirst(content) ==
    LET source_sets == FindAllSourceSets(content, 1)
        in_sets == Flatten([i \in 1..Len(source_sets) |-> FindAllSrc(source_sets[i], 1)])
        main_files == FindAllMainFiles(content, 1)
    IN main_files \o in_sets

\* paths: the matches inside every set(..._SOURCES ...), then the
\* add_executable matches
ExtractSourcePaths(content) ==
    LET source_sets == FindAllSourceSets(content, 1)
        in_sets == Flatten([i \in 1..Len(source_sets) |-> FindAllSrc(source_sets[i], 1)])
        main_files == FindAllMainFiles(content, 1)
    IN in_sets \o main_files

\* include_paths: the whitespace-separated tokens of every
\* include_directories(...) block, ${PROJECT_SOURCE_DIR} replaced
ExtractIncludePaths(content, cmake_file) ==
    LET blocks == FindAllIncludeBlocks(content, 1)
    IN Flatten([i \in 1..Len(blocks) |->
           FindAllTokens(Replace(blocks[i], 1, L_PROJECT_SOURCE_DIR,
                                 ProjectDir(cmake_file)), 1)])

\* The pair returned for a configuration file that was opened and read.
extract_paths_from_cmake(content, cmake_file) ==
    [paths |-> ExtractSourcePaths(content),
     include_paths |-> ExtractIncludePaths(content, cmake_file)]

-----------------------------------------------------------------------------
(* The directory tree.  An entry is [kind, text, err]: kind is "none",      *)
(* "file" or "dir"; text is a file's content; err, when not empty, is the  *)
(* message of the exception open()/read() raises for it.                   *)

Absent == [kind |-> "none", text |-> <<>>, err |-> <<>>]
Dir == [kind |-> "dir", text |-> <<>>, err |-> <<"I", "s", " ", "a", " ", "d", "i", "r">>]
File(text) == [kind |-> "file", text |-> text, err |-> <<>>]
BadFile(err) == [kind |-> "file", text |-> <<>>, err |-> err]

\* os.path.exists(p)
Exists(tree, p) ==
    /\ p # <<>>
    /\ AbsPath(p) \in DOMAIN tree
    /\ tree[AbsPath(p)].kind # "none"

IsDir(tree, p) ==
    /\ p # <<>>
    /\ AbsPath(p) \in DOMAIN tree
    /\ tree[AbsPath(p)].kind = "dir"

\* with open(p, 'r', encoding='utf-8') as f: f.read()
\* [ok, text] on success, [~ok, str(e)] when an exception is raised
ReadFile(tree, p) ==
    LET e == tree[AbsPath(p)]
    IN IF e.err = <<>> THEN [ok |-> TRUE, text |-> e.text]
       ELSE [ok |-> FALSE, text |-> e.err]

-----------------------------------------------------------------------------
(* The paths of the modelled tree *)

D_w_src == <<"/", "w", "/", "s", "r", "c">>  \* '/w/src'
D_p == <<"/", "w", "/", "p">>  \* '/w/p'
D_p_src == <<"/", "w", "/", "p", "/", "s", "r", "c">>  \* '/w/p/src'
D_p_include == <<"/", "w", "/", "p", "/", "i", "n", "c", "l", "u", "d", "e">>  \* '/w/p/include'
D_p_include_sub == <<"/", "w", "/", "p", "/", "i", "n", "c", "l", "u", "d", "e", "/", "s", "u", "b">>  \* '/w/p/include/sub'
D_p_include_dh == <<"/", "w", "/", "p", "/", "i", "n", "c", "l", "u", "d", "e", "/", "d", ".", "h">>  \* '/w/p/include/d.h'
D_inc2 == <<"/", "w", "/", "i", "n", "c", "2">>  \* '/w/inc2'
D_w_include == <<"/", "w", "/", "i", "n", "c", "l", "u", "d", "e">>  \* '/w/include'
D_var == <<"/", "w", "/", "$", "{", "X", "}">>  \* '/w/${X}'
F_w_a == <<"/", "w", "/", "s", "r", "c", "/", "a", ".", "c", "p", "p">>  \* '/w/src/a.cpp'
F_w_b == <<"/", "w", "/", "s", "r", "c", "/", "b", ".", "c", "p", "p">>  \* '/w/src/b.cpp'
F_w_m == <<"/", "w", "/", "s", "r", "c", "/", "m", ".", "c", "p", "p">>  \* '/w/src/m.cpp'
F_p_a == <<"/", "w", "/", "p", "/", "s", "r", "c", "/", "a", ".", "c", "p", "p">>  \* '/w/p/src/a.cpp'
F_p_b == <<"/", "w", "/", "p", "/", "s", "r", "c", "/", "b", ".", "c", "p", "p">>  \* '/w/p/src/b.cpp'
F_p_x == <<"/", "w", "/", "p", "/", "i", "n", "c", "l", "u", "d", "e", "/", "x", ".", "h">>  \* '/w/p/include/x.h'
F_p_n == <<"/", "w", "/", "p", "/", "i", "n", "c", "l", "u", "d", "e", "/", "n", ".", "t", "x", "t">>  \* '/w/p/include/n.txt'
F_p_y == <<"/", "w", "/", "p", "/", "i", "n", "c", "l", "u", "d", "e", "/", "s", "u", "b", "/", "y", ".", "h", "p", "p">>  \* '/w/p/include/sub/y.hpp'
F_p_q == <<"/", "w", "/", "p", "/", "i", "n", "c", "l", "u", "d", "e", "/", "d", ".", "h", "/", "q", ".", "h", "p", "p">>  \* '/w/p/include/d.h/q.hpp'
F_inc2_z == <<"/", "w", "/", "i", "n", "c", "2", "/", "z", ".", "h">>  \* '/w/inc2/z.h'
F_w_k == <<"/", "w", "/", "i", "n", "c", "l", "u", "d", "e", "/", "k", ".", "h">>  \* '/w/include/k.h'
F_var_v == <<"/", "w", "/", "$", "{", "X", "}", "/", "v", ".", "h">>  \* '/w/${X}/v.h'

\* The order in which a directory scan lists the entries of the tree.
Listing ==
    <<Cwd, D_w_src, F_w_m, F_w_a, F_w_b, D_p, D_p_src, F_p_b, F_p_a,
      D_p_include, F_p_x, D_p_include_dh, F_p_n, D_p_include_sub, F_p_q, F_p_y,
      D_inc2, F_inc2_z, D_w_include, F_w_k, D_var, F_var_v>>

Universe == {Listing[i] : i \in 1..Len(Listing)}

-----------------------------------------------------------------------------
(* find_header_files *)

\* The existing entries directly under top, in listing order.
ScanDir(tree, top) ==
    SelectSeq(Listing, LAMBDA q : Dirname(q) = AbsPath(top) /\ tree[q].kind # "none")

\* os.walk(top): the (root, files) pairs in top-down order.  A top that is
\* no directory yields nothing (the scan error is ignored).
RECURSIVE Walk(_, _)
Walk(tree, top) ==
    IF ~IsDir(tree, top) THEN <<>>
    ELSE LET entries == ScanDir(tree, top)
             dirs == SelectSeq(entries, LAMBDA q : tree[q].kind = "dir")
             nondirs == SelectSeq(entries, LAMBDA q : tree[q].kind # "dir")
         IN <<[root |-> top,
               files |-> [i \in 1..Len(nondirs) |-> Basename(nondirs[i])]]>>
            \o Flatten([i \in 1..Len(dirs) |->
                           Walk(tree, Join(top, Basename(dirs[i])))])

\* file.endswith(('.h', '.hpp'))
IsHeaderName(file) == EndsWith(file, L_h) \/ EndsWith(file, L_hpp)

\* The inner loops over one os.walk(include_dir)
HeadersUnder(tree, include_dir) ==
    LET w == Walk(tree, include_dir)
    IN Flatten([i \in 1..Len(w) |->
           LET hs == SelectSeq(w[i].files, IsHeaderName)
           IN [j \in 1..Len(hs) |-> Join(w[i].root, hs[j])]])

\* Variant: no test for '${' in the candidate.
HeadersOfCandidate_NoPlaceholderTest(tree, include_dir) ==
    IF ~Exists(tree, Strip(include_dir)) THEN <<>>
    ELSE HeadersUnder(tree, Strip(include_dir))

\* One iteration of the loop over include_dirs: what it appends.
HeadersOfCandidate(tree, include_dir) ==
    IF Contains(include_dir, L_dollar_brace) THEN <<>>
    ELSE IF ~Exists(tree, Strip(include_dir)) THEN <<>>
    ELSE HeadersUnder(tree, Strip(include_dir))

RECURSIVE find_header_files(_, _)
find_header_files(tree, dirs) ==
    IF dirs = <<>> THEN <<>>
    ELSE HeadersOfCandidate(tree, Head(dirs)) \o find_header_files(tree, Tail(dirs))

-----------------------------------------------------------------------------
(* read_file_content *)

\* f"// File not found: {file_path}\n\n"
NotFoundBlock(file_path) == L_NotFound \o file_path \o L_NLNL

\* f"//===== FILE: {file_path} =====//\n\n" + content
\*   + "\n\n//===== END FILE: {file_path} =====//\n\n"  (no f prefix: literal)
FileBlock(file_path, content) ==
    L_FileStart \o file_path \o L_FileStartEnd \o content \o L_FileEnd

\* f"// Error reading file {file_path}: {str(e)}\n\n"
ErrorBlock(file_path, reason) ==
    L_ErrorReading \o file_path \o L_Colon \o reason \o L_NLNL

\* Variant: the not-found result carries the joined path.
ResolvePath_ReportsJoined(tree, file_path, pdir) ==
    IF Exists(tree, file_path) THEN [found |-> TRUE, path |-> file_path]
    ELSE IF Exists(tree, Join(pdir, file_path))
         THEN [found |-> TRUE, path |-> Join(pdir, file_path)]
    ELSE [found |-> FALSE, path |-> Join(pdir, file_path)]

\* Variant: the path under the project directory is tried first.
ResolvePath_JoinedFirst(tree, file_path, pdir) ==
    IF Exists(tree, Join(pdir, file_path))
    THEN [found |-> TRUE, path |-> Join(pdir, file_path)]
    ELSE IF Exists(tree, file_path) THEN [found |-> TRUE, path |-> file_path]
    ELSE [found |-> FALSE, path |-> file_path]

\* The path the function settles on: [found, path]
ResolvePath(tree, file_path, pdir) ==
    IF Exists(tree, file_path) THEN [found |-> TRUE, path |-> file_path]
    ELSE IF Exists(tree, Join(pdir, file_path))
         THEN [found |-> TRUE, path |-> Join(pdir, file_path)]
    ELSE [found |-> FALSE, path |-> file_path]

\* Variant: the start banner is produced before the read is attempted.
ReadAndFormat_BannerBeforeRead(tree, path) ==
    LET r == ReadFile(tree, path)
    IN IF r.ok THEN FileBlock(path, r.text)
       ELSE L_FileStart \o path \o L_FileStartEnd \o ErrorBlock(path, r.text)

\* The block for a resolved path: the try/except around open and read.
ReadAndFormat(tree, path) ==
    LET r == ReadFile(tree, path)
    IN IF r.ok THEN FileBlock(path, r.text) ELSE ErrorBlock(path, r.text)

\* [content: the string returned, opened: the paths passed to open()]
read_file_content(tree, file_path, pdir) ==
    LET r == ResolvePath(tree, file_path, pdir)
    IN IF ~r.found THEN [content |-> NotFoundBlock(r.path), opened |-> <<>>]
       ELSE [content |-> ReadAndFormat(tree, r.path), opened |-> <<r.path>>]

-----------------------------------------------------------------------------
(* main *)

\* Variant: the extracted include directories are scanned too.
HeaderScanDirs_WithExtracted(pdir, extracted) == <<Join(pdir, L_include)>> \o extracted

\* The list handed to find_header_files (line 91): the fixed include
\* directory; the extracted include_dirs are not used.
HeaderScanDirs(pdir, extracted) == <<Join(pdir, L_include)>>

\* Variant: the headers put first.
AllFiles_HeadersFirst(sources, headers) == headers \o sources

\* all_files = source_paths + header_files
AllFiles(sources, headers) == sources \o headers

\* Variant: the file opened with mode 'a'.
OpenForWriting_Append(old) == old

\* open(output_file, 'w'): the content of the file once opened
OpenForWriting(old) == <<>>

\* The two header writes
HeaderLine1(cmake_file) == L_ProjectCode \o cmake_file \o L_NL
HeaderLine2(files) == L_TotalFiles \o Str(Len(files)) \o L_NLNL

-----------------------------------------------------------------------------
(* Inputs: configuration texts, trees, arguments *)

P_a == <<"s", "r", "c", "/", "a", ".", "c", "p", "p">>  \* 'src/a.cpp'
P_b == <<"s", "r", "c", "/", "b", ".", "c", "p", "p">>  \* 'src/b.cpp'
P_m == <<"s", "r", "c", "/", "m", ".", "c", "p", "p">>  \* 'src/m.cpp'
P_readme == <<"R", "E", "A", "D", "M", "E", ".", "m", "d">>  \* 'README.md'
N_A == <<"A">>  \* 'A'
N_X == <<"X", "_", "S", "O", "U", "R", "C", "E", "S">>  \* 'X_SOURCES'
N_app == <<"a", "p", "p">>  \* 'app'
T_psd_include == <<"$", "{", "P", "R", "O", "J", "E", "C", "T", "_", "S", "O", "U", "R", "C", "E", "_", "D", "I", "R", "}", "/", "i", "n", "c", "l", "u", "d", "e">>  \* '${PROJECT_SOURCE_DIR}/include'
T_inc2 == <<"i", "n", "c", "2">>  \* 'inc2'
T_var == <<"$", "{", "X", "}", "/", "h">>  \* '${X}/h'
A_sub == <<"p", "/", "C", "M", "a", "k", "e", "L", "i", "s", "t", "s", ".", "t", "x", "t">>  \* 'p/CMakeLists.txt'
K_inc2_sp == <<" ", "/", "w", "/", "i", "n", "c", "2", " ">>  \* ' /w/inc2 '
K_nope == <<"/", "w", "/", "n", "o", "p", "e">>  \* '/w/nope'
E_decode == <<"c", "a", "n", "'", "t", " ", "d", "e", "c", "o", "d", "e">>  \* "can't decode"
E_denied == <<"P", "e", "r", "m", "i", "s", "s", "i", "o", "n", " ", "d", "e", "n", "i", "e", "d">>  \* 'Permission denied'
X_stale == <<"s", "t", "a", "l", "e">>  \* 'stale'
C_a == <<"i", "n", "t", " ", "a", ";">>  \* 'int a;'
C_pa == <<"i", "n", "t", " ", "p", "a", ";">>  \* 'int pa;'
C_m == <<"i", "n", "t", " ", "m", ";">>  \* 'int m;'
C_b == <<"i", "n", "t", " ", "b", ";">>  \* 'int b;'
C_a2 == <<"i", "n", "t", " ", "a", "2", ";">>  \* 'int a2;'
C_h == <<"#", "h">>  \* '#h'

\* A declaration: kind "set" is set(<name>_SOURCES <args>), kind "exe" is
\* add_executable(<name> <arg>), kind "inc" is include_directories(<args>);
\* sep separates the arguments.
SetDecl(name, sep, args) == [kind |-> "set", name |-> name, sep |-> sep, args |-> args]
ExeDecl(name, path) == [kind |-> "exe", name |-> name, sep |-> <<" ">>, args |-> <<path>>]
IncDecl(args) == [kind |-> "inc", name |-> <<>>, sep |-> <<" ">>, args |-> args]

\* The text of one declaration.
RenderDecl(d) ==
    LET spaced == Flatten([i \in 1..Len(d.args) |-> d.sep \o d.args[i]])
    IN CASE d.kind = "set" -> L_set \o d.name \o L_SOURCES \o spaced \o <<")">>
         [] d.kind = "exe" -> L_add_executable \o d.name \o spaced \o <<")">>
         [] d.kind = "inc" ->
              L_include_directories \o SubSeq(spaced, 2, Len(spaced)) \o <<")">>

\* The text of a configuration file: one declaration per line.
RenderConfig(ds) == Flatten([i \in 1..Len(ds) |-> RenderDecl(ds[i]) \o L_NL])

SeqsUpTo(S, n) == UNION {[1..k -> S] : k \in 0..n}

SetDecls ==
    {SetDecl(N_A, <<" ">>, <<P_a>>),
     SetDecl(N_A, <<"\n", " ", " ">>, <<P_a, P_b>>),
     SetDecl(N_X, <<" ">>, <<P_b, P_a>>),
     SetDecl(N_A, <<" ">>, <<P_a, P_a>>),
     SetDecl(N_A, <<" ">>, <<P_readme, P_b>>)}
ExeDecls == {ExeDecl(N_app, P_m), ExeDecl(N_app, P_a), ExeDecl(N_app, P_readme)}
IncDecls == {IncDecl(<<T_psd_include>>), IncDecl(<<T_inc2, T_var>>)}

\* Declarations of the configuration texts extract_paths_from_cmake is
\* applied to on its own
ExtractDecls == SetDecls \cup ExeDecls \cup IncDecls

\* Declarations of the configuration texts main is run on
MainDecls ==
    {SetDecl(N_A, <<"\n", " ", " ">>, <<P_a, P_b>>),
     ExeDecl(N_app, P_m),
     IncDecl(<<T_psd_include>>),
     IncDecl(<<T_inc2, T_var>>)}

ExtractConfigs == SeqsUpTo(ExtractDecls, MaxDecls)
MainConfigs == SeqsUpTo(MainDecls, MaxDecls)

\* The fixed part of the tree.
BaseTree ==
    [q \in Universe |->
        CASE q \in {Cwd, D_w_src, D_p, D_p_src, D_p_include, D_p_include_sub,
                    D_p_include_dh, D_inc2, D_w_include, D_var} -> Dir
          [] q = F_w_m -> File(C_m)
          [] q = F_p_y -> BadFile(E_decode)
          [] q \in {F_p_x, F_p_n, F_p_q, F_inc2_z, F_w_k, F_var_v} -> File(C_h)
          [] OTHER -> Absent]

\* The trees main is run on: src/a.cpp may exist as given (readable or
\* not) and under the project directory; src/b.cpp exists only under the
\* project directory /w/p.
MainTrees ==
    {[BaseTree EXCEPT ![F_w_a] = wa, ![F_p_a] = pa, ![F_p_b] = File(C_b)] :
        wa \in {Absent, File(C_a), BadFile(E_denied)},
        pa \in {Absent, File(C_pa)}}

\* The trees find_header_files is applied to on its own
FindTrees ==
    {BaseTree,
     [BaseTree EXCEPT ![D_inc2] = Absent, ![F_inc2_z] = Absent],
     [BaseTree EXCEPT ![D_p_include_sub] = Absent, ![F_p_y] = Absent,
                      ![F_p_x] = Absent]}

\* Candidate include directories
Candidates ==
    {D_p_include, D_p_include_sub, T_inc2, K_inc2_sp, K_nope, D_var, F_p_x, T_var}

CandidateLists == SeqsUpTo(Candidates, MaxCands)

-----------------------------------------------------------------------------
(* State *)

\* What an invocation reads: the tree and the configuration file.
World == [fs |-> fs, status |-> cmakeStatus, text |-> cmakeText, decls |-> decls]

\* The local variables of main before it has assigned them.
NoLocals ==
    /\ project_dir = <<>>
    /\ source_paths = <<>>
    /\ include_dirs = <<>>
    /\ header_files = <<>>
    /\ all_files = <<>>
    /\ idx = 1
    /\ log = <<>>

locals == <<project_dir, source_paths, include_dirs, header_files, all_files, idx, log>>
inputs == <<argv, cmakeStatus, cmakeText, decls, fs>>
history == <<prev, cur>>

Init ==
    /\ argv \in {<<>>, <<A_sub>>}
    /\ fs \in MainTrees
    /\ \/ /\ cmakeStatus = "ok"
          /\ decls \in MainConfigs
          /\ cmakeText = RenderConfig(decls)
       \/ /\ cmakeStatus \in {"missing", "unreadable"}
          /\ decls = <<>>
          /\ cmakeText = <<>>
    /\ \/ outExists = FALSE /\ out = <<>>
       \/ outExists = TRUE /\ out = <<X_stale>>
    /\ pc = "idle"
    /\ NoLocals
    /\ cur = World
    /\ prev = [valid |-> FALSE, world |-> World, out |-> out,
               header_files |-> <<>>, pc |-> "idle"]
    /\ cands = <<>>

\* A behaviour holds two invocations of main, the second one started after
\* the first has ended: CanStart allows the first and the second.
CanStart == pc = "idle" \/ (pc \in {"done", "aborted"} /\ ~prev.valid)

\* The time between the two invocations, as long as nothing the first one
\* read has been changed: one change is made between them, or none.
Between == pc \in {"done", "aborted"} /\ ~prev.valid /\ World = cur

\* The invocation that ended becomes the previous one.
Remember ==
    /\ cur' = World
    /\ prev' = IF pc = "idle" THEN prev
               ELSE [valid |-> TRUE, world |-> cur, out |-> out,
                     header_files |-> header_files, pc |-> pc]

\* main, lines 79-101, when the configuration file can be read: the
\* extraction, the header scan, the output file opened and its two header
\* lines written.
MainStart ==
    /\ CanStart
    /\ cmakeStatus = "ok"
    /\ Remember
    /\ LET cmake_file == CmakeFile(argv)
           pdir == ProjectDir(cmake_file)
           ex == extract_paths_from_cmake(cmakeText, cmake_file)
           headers == find_header_files(fs, HeaderScanDirs(pdir, ex.include_paths))
           files == AllFiles(ex.paths, headers)
       IN /\ project_dir' = pdir
          /\ source_paths' = ex.paths
          /\ include_dirs' = ex.include_paths
          /\ header_files' = headers
          /\ all_files' = files
          /\ out' = OpenForWriting(out) \o <<HeaderLine1(cmake_file), HeaderLine2(files)>>
    /\ outExists' = TRUE
    /\ idx' = 1
    /\ log' = <<>>
    /\ pc' = "loop"
    /\ UNCHANGED <<inputs, cands>>

\* main, lines 79-88, when the configuration file is missing or cannot be
\* read: open() in extract_paths_from_cmake raises, nothing catches it, and
\* the invocation ends before the output file is opened.
MainAbort ==
    /\ CanStart
    /\ cmakeStatus # "ok"
    /\ Remember
    /\ project_dir' = ProjectDir(CmakeFile(argv))
    /\ source_paths' = <<>>
    /\ include_dirs' = <<>>
    /\ header_files' = <<>>
    /\ all_files' = <<>>
    /\ idx' = 1
    /\ log' = <<>>
    /\ pc' = "aborted"
    /\ UNCHANGED <<inputs, out, outExists, cands>>

\* One iteration of the loop of lines 103-106.
ProcessFile ==
    /\ pc = "loop"
    /\ idx <= Len(all_files)
    /\ LET r == read_file_content(fs, all_files[idx], project_dir)
       IN /\ out' = Append(out, r.content)
          /\ log' = Append(log, [path |-> all_files[idx], opened |-> r.opened])
    /\ idx' = idx + 1
    /\ UNCHANGED <<inputs, pc, project_dir, source_paths, include_dirs, header_files,
                   all_files, outExists, history, cands>>

\* The loop is over: the output file is closed, main returns (line 108).
MainFinish ==
    /\ pc = "loop"
    /\ idx > Len(all_files)
    /\ pc' = "done"
    /\ UNCHANGED <<inputs, locals, out, outExists, history, cands>>

\* The declarations that are no include_directories(...) declaration.
NonInclude(ds) == SelectSeq(ds, LAMBDA d : d.kind # "inc")

\* Between two invocations the user rewrites the include_directories(...)
\* declarations of the configuration file.
EditIncludeDirectories ==
    /\ Between
    /\ cmakeStatus = "ok"
    /\ \E ds \in MainConfigs :
          /\ ds # decls
          /\ NonInclude(ds) = NonInclude(decls)
          /\ decls' = ds
          /\ cmakeText' = RenderConfig(ds)
    /\ UNCHANGED <<argv, cmakeStatus, fs, pc, locals, out, outExists, history, cands>>

\* Between two invocations the content of src/a.cpp changes.
TouchFile ==
    /\ Between
    /\ fs[F_w_a] # File(C_a2)
    /\ fs' = [fs EXCEPT ![F_w_a] = File(C_a2)]
    /\ UNCHANGED <<argv, cmakeStatus, cmakeText, decls, pc, locals, out, outExists,
                   history, cands>>

Next ==
    \/ MainStart
    \/ MainAbort
    \/ ProcessFile
    \/ MainFinish
    \/ EditIncludeDirectories
    \/ TouchFile

Spec == Init /\ [][Next]_vars

-----------------------------------------------------------------------------
(* extract_paths_from_cmake applied on its own *)

InitExtract ==
    /\ argv \in {<<>>, <<A_sub>>}
    /\ fs = BaseTree
    /\ cmakeStatus = "ok"
    /\ decls \in ExtractConfigs
    /\ cmakeText = RenderConfig(decls)
    /\ outExists = FALSE
    /\ out = <<>>
    /\ pc = "idle"
    /\ NoLocals
    /\ cur = World
    /\ prev = [valid |-> FALSE, world |-> World, out |-> out,
               header_files |-> <<>>, pc |-> "idle"]
    /\ cands = <<>>

CallExtract ==
    /\ pc = "idle"
    /\ LET ex == extract_paths_from_cmake(cmakeText, CmakeFile(argv))
       IN /\ source_paths' = ex.paths
          /\ include_dirs' = ex.include_paths
    /\ pc' = "done"
    /\ UNCHANGED <<inputs, project_dir, header_files, all_files, idx, log, out,
                   outExists, history, cands>>

NextExtract == CallExtract

SpecExtract == InitExtract /\ [][NextExtract]_vars

-----------------------------------------------------------------------------
(* find_header_files applied on its own *)

InitFind ==
    /\ argv = <<>>
    /\ fs \in FindTrees
    /\ cmakeStatus = "ok"
    /\ decls = <<>>
    /\ cmakeText = <<>>
    /\ outExists = FALSE
    /\ out = <<>>
    /\ pc = "idle"
    /\ NoLocals
    /\ cur = World
    /\ prev = [valid |-> FALSE, world |-> World, out |-> out,
               header_files |-> <<>>, pc |-> "idle"]
    /\ cands \in CandidateLists

CallFindHeaderFiles ==
    /\ pc = "idle"
    /\ header_files' = find_header_files(fs, cands)
    /\ pc' = "done"
    /\ UNCHANGED <<inputs, project_dir, source_paths, include_dirs, all_files, idx,
                   log, out, outExists, history, cands>>

NextFind == CallFindHeaderFiles

SpecFind == InitFind /\ [][NextFind]_vars

-----------------------------------------------------------------------------
(* Properties of main.  The tree and the configuration an invocation read  *)
(* are cur: fs itself may change once the invocation has ended.            *)

\* The blocks written so far: the chunks after the two header lines.
Blocks == SubSeq(out, 3, Len(out))

\* The combined list: config-derived source paths, then discovered headers.
CombinedList == source_paths \o header_files

StartsWith(s, prefix) == HasLit(s, 1, prefix)

\* block is a start banner for path q followed by content and the end banner
IsFileBlockOf(block, q) ==
    /\ StartsWith(block, L_FileStart \o q \o L_FileStartEnd)
    /\ EndsWith(block, L_FileEnd)

\* block is an error comment about path q
IsErrorBlockOf(block, q) ==
    /\ StartsWith(block, L_ErrorReading \o q \o L_Colon)
    /\ EndsWith(block, L_NLNL)

\* block is one of the three results read_file_content has for path
IsBlockFor(block, path) ==
    \/ block = NotFoundBlock(path)
    \/ \E q \in {path, Join(project_dir, path)} :
          IsFileBlockOf(block, q) \/ IsErrorBlockOf(block, q)

\* path exists neither as given nor relative to the configuration file's
\* directory
Unresolvable(path) ==
    /\ ~Exists(cur.fs, path)
    /\ ~Exists(cur.fs, Join(project_dir, path))

\* C1: every invocation of main reaches its end, whatever the state of the
\* configuration file, and project_code.txt has been written by it when it
\* finishes.
C1_RunAlwaysCompletes ==
    pc \in {"done", "aborted"} =>
        /\ pc = "done"
        /\ outExists
        /\ Len(out) >= 2
        /\ out[1] = HeaderLine1(CmakeFile(argv))

\* C2: the blocks written after the two header lines correspond one to one
\* and in order to the combined list (sources, then headers): while the
\* loop runs the blocks written are those of the paths processed so far,
\* and when main finishes the i-th block is the result for the i-th path.
C2_BlocksFollowCombinedList ==
    pc \in {"loop", "done"} =>
        /\ Len(Blocks) = idx - 1
        /\ idx - 1 <= Len(CombinedList)
        /\ pc = "done" => Len(Blocks) = Len(CombinedList)
        /\ \A i \in 1..Len(Blocks) : IsBlockFor(Blocks[i], CombinedList[i])

\* A finished run over a list with a repeated path, sources and headers.
C2_Witness ==
    /\ pc = "done"
    /\ Len(source_paths) >= 2
    /\ Len(header_files) >= 2
    /\ Len(Blocks) = Len(source_paths) + Len(header_files)
    /\ \E i, j \in 1..Len(CombinedList) : i < j /\ CombinedList[i] = CombinedList[j]

\* C3: a path that exists neither as given nor relative to the configuration
\* file's directory gets exactly the block '// File not found: <path>' with
\* the path as given, and every path after it is still processed and gets
\* its own block.
C3_NotFoundBlockAndContinue ==
    pc \in {"loop", "done"} =>
        /\ \A i \in 1..Len(Blocks) :
              Unresolvable(all_files[i]) => Blocks[i] = NotFoundBlock(all_files[i])
        /\ pc = "done" =>
              /\ Len(Blocks) = Len(all_files)
              /\ \A i \in 1..Len(all_files) : log[i].path = all_files[i]

\* A finished run in which a path that was not found is followed by a path
\* that was read.
C3_Witness ==
    /\ pc = "done"
    /\ \E i, j \in 1..Len(Blocks) :
          /\ i < j
          /\ Unresolvable(all_files[i])
          /\ Blocks[i] = NotFoundBlock(all_files[i])
          /\ IsFileBlockOf(Blocks[j], all_files[j])

\* C6: a second run of main with the same argument over an unchanged tree
\* and configuration file ends as the first one did and leaves the same
\* output document: the output is overwritten, not appended to.
C6_SecondRunSameOutput ==
    (pc \in {"done", "aborted"} /\ prev.valid /\ prev.world = cur) =>
        /\ pc = prev.pc
        /\ out = prev.out

\* Two finished runs over the same inputs that wrote file blocks.
C6_Witness ==
    /\ pc = "done"
    /\ prev.valid
    /\ prev.world = cur
    /\ prev.pc = "done"
    /\ Len(Blocks) >= 3
    /\ out = prev.out

\* C7: read_file_content resolves a path in a fixed precedence: a path that
\* exists as given is opened as given and its block names it; otherwise a
\* path that exists under the configuration file's directory is opened
\* there and the start banner shows the joined path; otherwise the block is
\* the not-found placeholder and no file is opened.
C7_ResolutionPrecedence ==
    pc \in {"loop", "done"} =>
        \A i \in 1..Len(Blocks) :
            LET p == all_files[i]
                j == Join(project_dir, p)
            IN IF Exists(cur.fs, p)
               THEN /\ log[i].opened = <<p>>
                    /\ IsFileBlockOf(Blocks[i], p) \/ IsErrorBlockOf(Blocks[i], p)
               ELSE IF Exists(cur.fs, j)
               THEN /\ log[i].opened = <<j>>
                    /\ IsFileBlockOf(Blocks[i], j) \/ IsErrorBlockOf(Blocks[i], j)
                    /\ ReadFile(cur.fs, j).ok => IsFileBlockOf(Blocks[i], j)
               ELSE /\ log[i].opened = <<>>
                    /\ Blocks[i] = NotFoundBlock(p)

\* A run in which one path exists both as given and under the configuration
\* file's directory and was read as given, and another exists only under
\* that directory and was read there.
C7_Witness ==
    /\ pc = "done"
    /\ \E i, k \in 1..Len(Blocks) :
          /\ Exists(cur.fs, all_files[i])
          /\ Exists(cur.fs, Join(project_dir, all_files[i]))
          /\ AbsPath(all_files[i]) # Join(project_dir, all_files[i])
          /\ log[i].opened = <<all_files[i]>>
          /\ ~Exists(cur.fs, all_files[k])
          /\ log[k].opened = <<Join(project_dir, all_files[k])>>
          /\ IsFileBlockOf(Blocks[k], Join(project_dir, all_files[k]))

\* C8: a read or decode failure on a resolved file stays inside
\* read_file_content: main does not abort because of it, the block of that
\* file is exactly one '// Error reading file <path>: <reason>' comment (no
\* start banner, no content), and the remaining paths are still processed.
C8_ReadFailureIsLocal ==
    /\ pc = "aborted" => cur.status # "ok"
    /\ pc \in {"loop", "done"} =>
          /\ \A i \in 1..Len(Blocks) :
                \A q \in {log[i].opened[n] : n \in 1..Len(log[i].opened)} :
                    ~ReadFile(cur.fs, q).ok =>
                        Blocks[i] = ErrorBlock(q, ReadFile(cur.fs, q).text)
          /\ pc = "done" => Len(Blocks) = Len(all_files)

\* A finished run in which a file that could not be read is followed by
\* another path that got its block.
C8_Witness ==
    /\ pc = "done"
    /\ \E i, j \in 1..Len(Blocks) :
          /\ i < j
          /\ log[i].opened # <<>>
          /\ ~ReadFile(cur.fs, log[i].opened[1]).ok
          /\ IsErrorBlockOf(Blocks[i], log[i].opened[1])
          /\ IsFileBlockOf(Blocks[j], all_files[j])

\* C10: two finished runs over the same tree whose configuration texts
\* differ only in their include_directories(...) declarations have the same
\* header list and the same output document.
C10_IncludeDirsHaveNoEffect ==
    (/\ pc = "done"
     /\ prev.valid
     /\ prev.pc = "done"
     /\ prev.world.fs = cur.fs
     /\ NonInclude(prev.world.decls) = NonInclude(cur.decls)) =>
        /\ header_files = prev.header_files
        /\ out = prev.out

\* Two finished runs whose include_directories(...) declarations differ, the
\* second one having extracted an include directory that exists and holds a
\* header the output does not show.
C10_Witness ==
    /\ pc = "done"
    /\ prev.valid
    /\ prev.pc = "done"
    /\ prev.world.fs = cur.fs
    /\ NonInclude(prev.world.decls) = NonInclude(cur.decls)
    /\ prev.world.decls # cur.decls
    /\ header_files # <<>>
    /\ \E n \in 1..Len(include_dirs) :
          /\ HeadersOfCandidate(cur.fs, include_dirs[n]) # <<>>
          /\ \A h \in 1..Len(header_files) :
                header_files[h] # HeadersOfCandidate(cur.fs, include_dirs[n])[1]
    /\ out = prev.out

-----------------------------------------------------------------------------
(* Properties of extract_paths_from_cmake *)

\* p has the shape src/<word-or-slash characters>.cpp
IsSrcCppShape(p) ==
    /\ Len(p) > Len(L_src) + Len(L_cpp)
    /\ StartsWith(p, L_src)
    /\ EndsWith(p, L_cpp)
    /\ \A i \in (Len(L_src) + 1)..(Len(p) - Len(L_cpp)) : p[i] \in PathChars

\* The matches of one declaration, in match order.
MatchesOf(d) == IF d.kind = "inc" THEN <<>> ELSE SelectSeq(d.args, IsSrcCppShape)

MatchesOfAll(ds) == Flatten([i \in 1..Len(ds) |-> MatchesOf(ds[i])])

\* C4: for a configuration text whose only declaration is one
\* set(<name>_SOURCES p1 ... pn) with every pi of the shape src/....cpp,
\* the source list returned is exactly <<p1, ..., pn>>.
C4_SingleSourceSetExact ==
    (/\ pc = "done"
     /\ Len(decls) = 1
     /\ decls[1].kind = "set"
     /\ \A i \in 1..Len(decls[1].args) : IsSrcCppShape(decls[1].args[i])) =>
        source_paths = decls[1].args

\* One set declaration with a repeated path was extracted.
C4_Witness ==
    /\ pc = "done"
    /\ Len(decls) = 1
    /\ decls[1].kind = "set"
    /\ decls[1].args = <<P_a, P_a>>
    /\ source_paths = <<P_a, P_a>>

\* C5 as stated: the source list holds the matches of all declarations in
\* the order the declarations appear in the text.
C5_TextOrder == pc = "done" => source_paths = MatchesOfAll(decls)

\* C5 as amended: the source list holds the matches of all
\* set(<name>_SOURCES ...) declarations in the order they appear in the
\* text, followed by the matches of all add_executable(<name> <path>)
\* declarations in the order they appear; within one declaration in match
\* order; duplicates are kept.
C5_SetsThenExecutables ==
    pc = "done" =>
        source_paths =
            MatchesOfAll(SelectSeq(decls, LAMBDA d : d.kind = "set"))
            \o MatchesOfAll(SelectSeq(decls, LAMBDA d : d.kind = "exe"))

\* An add_executable declaration with a match stands before a set
\* declaration with a match, and the set's matches come first in the list.
C5_Witness ==
    /\ pc = "done"
    /\ Len(decls) >= 2
    /\ decls[1].kind = "exe"
    /\ decls[2].kind = "set"
    /\ MatchesOf(decls[1]) # <<>>
    /\ MatchesOf(decls[2]) # <<>>
    /\ source_paths[1] = MatchesOf(decls[2])[1]
    /\ source_paths[Len(source_paths)] = MatchesOf(decls[1])[1]

-----------------------------------------------------------------------------
(* Properties of find_header_files *)

\* The header files of the tree at any depth under directory d, each named
\* as d followed by its path below d.
HeaderFilesBelow(tree, d) ==
    LET top == AbsPath(d) \o <<"/">>
    IN {d \o SubSeq(f, Len(top), Len(f)) :
           f \in {g \in Universe : /\ tree[g].kind = "file"
                                   /\ IsHeaderName(Basename(g))
                                   /\ StartsWith(g, top)}}

\* What candidate c must contribute when it is taken as written.
ExpectedAsWritten(tree, c) ==
    IF Contains(c, L_dollar_brace) \/ ~Exists(tree, c) THEN {}
    ELSE HeaderFilesBelow(tree, c)

\* What candidate c must contribute when it is taken without the white space
\* around it.
ExpectedStripped(tree, c) ==
    IF Contains(c, L_dollar_brace) \/ ~Exists(tree, Strip(c)) THEN {}
    ELSE HeaderFilesBelow(tree, Strip(c))

\* result is the groups of the candidates in candidate order, the group of a
\* candidate holding each file expected of it once.
RECURSIVE GroupedAsWritten(_, _, _)
GroupedAsWritten(tree, cs, result) ==
    IF cs = <<>> THEN result = <<>>
    ELSE LET n == Cardinality(ExpectedAsWritten(tree, Head(cs)))
         IN /\ Len(result) >= n
            /\ {result[i] : i \in 1..n} = ExpectedAsWritten(tree, Head(cs))
            /\ GroupedAsWritten(tree, Tail(cs), SubSeq(result, n + 1, Len(result)))

RECURSIVE GroupedStripped(_, _, _)
GroupedStripped(tree, cs, result) ==
    IF cs = <<>> THEN result = <<>>
    ELSE LET n == Cardinality(ExpectedStripped(tree, Head(cs)))
         IN /\ Len(result) >= n
            /\ {result[i] : i \in 1..n} = ExpectedStripped(tree, Head(cs))
            /\ GroupedStripped(tree, Tail(cs), SubSeq(result, n + 1, Len(result)))

\* C9 as stated: find_header_files returns exactly the .h and .hpp files at
\* any depth under the candidates that hold no '${' and exist on disk,
\* grouped in candidate order; any other candidate contributes nothing.
C9_CandidatesAsWritten == pc = "done" => GroupedAsWritten(fs, cands, header_files)

\* C9 as amended: the same, a candidate being tested for existence and
\* walked after the white space around it is removed (the '${' test is made
\* on the candidate as written), and the files being named from the
\* candidate without that white space.
C9_CandidatesStripped == pc = "done" => GroupedStripped(fs, cands, header_files)

\* A call with a candidate holding '${' that exists on disk with a header
\* below it, followed by a candidate whose headers were returned.
C9_Witness ==
    /\ pc = "done"
    /\ Len(cands) = 2
    /\ Contains(cands[1], L_dollar_brace)
    /\ Exists(fs, cands[1])
    /\ HeaderFilesBelow(fs, cands[1]) # {}
    /\ Cardinality(ExpectedStripped(fs, cands[2])) >= 2
    /\ Len(header_files) = Cardinality(ExpectedStripped(fs, cands[2]))

=============================================================================
